---- MODULE Spec2Model ----
(***************************************************************************)
(* A model of deno-datarule (src/src/std.ts, src/src/util.ts,              *)
(* src/src/core.ts): rules built by the mkRule_* constructors, applied to  *)
(* JavaScript values held in a heap of cells.                              *)
(*                                                                         *)
(* One activation of a rule's check() is one frame of `stack`.  A frame    *)
(* runs its validate closure up to the next child check() or up to its     *)
(* return; a child's report is delivered into the caller's frame.  Nothing *)
(* in the library catches exceptions, so a fault unwinds the whole stack.  *)
(***************************************************************************)
EXTENDS Integers, Sequences, FiniteSets, TLC

\* ------------------------------------------------------------------ bounds

\* Longest generated array / largest generated object of the input.
MaxLen == 2
\* Number of top-level calls made on the rule under test.
MaxCalls == 2
\* Nested check() activations the engine's call stack holds; one more
\* raises RangeError (Maximum call stack size exceeded).
MaxStack == 6

\* ------------------------------------------------------------- JS values

\* A cell of the heap: kind is the runtime kind of the value, val the value
\* of a primitive, ents the own enumerable properties in enumeration order
\* (what Object.entries and Object.keys see), len the length of an array
\* (what .length and for-of see).  Cell makes an array whose properties are
\* its elements under their index keys, ArrayCell any array.
Cell(k, v, e) == [kind |-> k, val |-> v, ents |-> e, len |-> IF k = "array" THEN Len(e) ELSE 0]
ArrayCell(n, e) == [kind |-> "array", val |-> "", ents |-> e, len |-> n]

ROOT == "ROOT"

\* The values the generated input may hold as elements or property values.
\* ROOT among them makes the input cyclic.
Catalog ==
    [ s_str       |-> Cell("string", "str", <<>>),
      s_num       |-> Cell("string", "num", <<>>),
      n_123       |-> Cell("number", "123", <<>>),
      o_empty     |-> Cell("object", "", <<>>),
      o_nestEmpty |-> Cell("object", "", << <<"nest", "o_empty">> >>),
      o_nestStr   |-> Cell("object", "", << <<"nest", "s_str">> >>),
      undef       |-> Cell("undefined", "", <<>>) ]

\* What reading a hole of an array gives.
UNDEF == "undef"

ElemIds == (DOMAIN Catalog \ {UNDEF}) \cup {ROOT}

\* The primitive values an input may be.
Atoms ==
    { Cell("undefined", "", <<>>), Cell("null", "", <<>>),
      Cell("string", "str", <<>>), Cell("string", "num", <<>>),
      Cell("number", "123", <<>>),
      Cell("boolean", "true", <<>>), Cell("boolean", "false", <<>>),
      Cell("bigint", "1", <<>>), Cell("symbol", "a", <<>>) }

\* Index keys of arrays, as Object.entries / Object.keys give them.
IdxKey(i) == ToString(i - 1)

\* Property names of generated objects, in the order they are inserted.
KeyOrder == <<"type", "strValue", "nest">>

SeqsUpTo(S, n) == UNION { [1..k -> S] : k \in 0..n }

\* A slot of a generated array that holds no element.
HOLE == "hole"

\* The named properties a generated array may have besides its elements.
NamedProps == { <<>>, << <<"type", "s_str">> >>, << <<"type", "n_123">> >> }

\* The arrays of up to MaxLen slots, each slot an element or a hole, with
\* at most one named property where that leaves a slot free: the index
\* properties come first, in ascending order, then the named one.
Arrays ==
    UNION { { ArrayCell(Len(es),
                        SelectSeq([i \in 1..Len(es) |-> <<IdxKey(i), es[i]>>],
                                  LAMBDA e : e[2] # HOLE) \o np) :
                np \in { q \in NamedProps : Len(es) + Len(q) <= MaxLen } } :
            es \in SeqsUpTo(ElemIds \cup {HOLE}, MaxLen) }

\* Strictly increasing index sequences into KeyOrder: the key sets, each in
\* insertion order.
IncSeqs(n) ==
    { s \in SeqsUpTo(1..Len(KeyOrder), n) :
        \A i \in 1..(Len(s) - 1) : s[i] < s[i + 1] }

Objects ==
    UNION { { Cell("object", "", [i \in 1..Len(ks) |-> <<KeyOrder[ks[i]], vs[i]>>]) :
                vs \in [1..Len(ks) -> ElemIds] } :
            ks \in IncSeqs(IF MaxLen < Len(KeyOrder) THEN MaxLen ELSE Len(KeyOrder)) }

Inputs == Atoms \cup Arrays \cup Objects

\* ------------------------------------------------------------------ rules

\* A rule object: kind names the constructor whose validate closure it
\* holds; value is the literal (or the typeof string of a scalar rule), kids
\* the element rule / positional rules / case rules, map the ruleMap as
\* Object.entries gives it, opt the optionalKeys argument, factory the
\* callback of a lazy rule.
Rule(k, v, kids, map, opt, cb) ==
    [kind |-> k, value |-> v, kids |-> kids, map |-> map, opt |-> opt, factory |-> cb]

NoOpt == [given |-> FALSE, keys |-> <<>>]
Opt(keys) == [given |-> TRUE, keys |-> keys]

Scalar(t) == Rule("typeof", t, <<>>, <<>>, NoOpt, "")
Lit(k, v) == Rule(k, v, <<>>, <<>>, NoOpt, "")
Kids(k, kids) == Rule(k, "", kids, <<>>, NoOpt, "")
ObjLit(map, opt) == Rule("ObjLit", "", <<>>, map, opt, "")
LazyEval(cb) == Rule("LazyEval", "", <<>>, <<>>, NoOpt, cb)

rule_String == 1
rule_Number == 2
rule_Boolean == 3
rule_Bigint == 4
rule_Symbol == 5
rule_Undefined == 6
rule_Null == 7
rule_LitStr == 8
rule_LitNum == 9
rule_Lit123 == 10
rule_BoolTrue == 11
rule_BoolFalse == 12
rule_ObjStr == 13
rule_ObjNum == 14
rule_StrOrNum == 15
rule_Never == 16
rule_Overlap == 17
rule_StrPair == 18
rule_Unit == 19
rule_StrNumPair == 20
rule_StrArray == 21
rule_NestArray == 22
rule_NumDict == 23
rule_LazyStr == 24
rule_LazyNest == 25
rule_LoopNest == 26
rule_ObjOptStr == 27
rule_ObjNone == 28
rule_LazyFlaky == 29
rule_LazyReenter == 30
rule_FlakyArray == 31

\* The rules that exist after construction, by id.
StaticRules ==
    << Scalar("string"), Scalar("number"), Scalar("boolean"), Scalar("bigint"),
       Scalar("symbol"), Scalar("undefined"),
       Rule("null", "", <<>>, <<>>, NoOpt, ""),
       Lit("StrLit", "str"), Lit("StrLit", "num"), Lit("NumLit", "123"),
       Lit("BoolLit", "true"), Lit("BoolLit", "false"),
       ObjLit(<< <<"type", rule_LitStr>>, <<"strValue", rule_String>> >>, NoOpt),
       ObjLit(<< <<"type", rule_LitNum>>, <<"strValue", rule_Number>> >>, NoOpt),
       Kids("Union", <<rule_ObjStr, rule_ObjNum>>),
       Kids("Union", <<>>),
       Kids("Union", <<rule_LitStr, rule_String, rule_Number>>),
       Kids("Tuple", <<rule_String, rule_String>>),
       Kids("Tuple", <<>>),
       Kids("Tuple", <<rule_String, rule_Number>>),
       Kids("Array", <<rule_String>>),
       Kids("Array", <<rule_LoopNest>>),
       Kids("Dictionary", <<rule_Number>>),
       LazyEval("constString"),
       LazyEval("mkRule_LoopNest"),
       ObjLit(<< <<"nest", rule_LazyNest>> >>, Opt(<<"nest">>)),
       ObjLit(<< <<"type", rule_LitStr>>, <<"strValue", rule_String>> >>, Opt(<<"strValue">>)),
       ObjLit(<<>>, NoOpt),
       LazyEval("flaky"),
       LazyEval("reentrant"),
       Kids("Array", <<rule_LazyFlaky>>) >>

NStatic == Len(StaticRules)

\* The callbacks that do more than build a rule and return it: "flaky"
\* throws or returns rule_String, as it likes; "reentrant" may call check()
\* of its own lazy rule, on a string, before it returns rule_String.
FaultyFactories == {"flaky", "reentrant"}

\* The rules under test that reach such a callback, and those that do not.
FaultyTops == {rule_LazyFlaky, rule_LazyReenter, rule_FlakyArray}
Tops == (1..NStatic) \ FaultyTops

StaticLazy == { i \in 1..NStatic : StaticRules[i].kind = "LazyEval" }

\* ------------------------------------------------------------------ state

VARIABLES
    root,      \* the cell of the input value the calls are made with
    top,       \* the rule the calls are made on
    stack,     \* the check() activations in progress, outermost first
    dyn,       \* the rules created by factories since construction
    cache,     \* per lazy rule: its cache, 0 for null, else a rule id
    invoked,   \* per lazy rule: how often it has invoked its callback
    validated, \* per lazy rule: how often its validate closure was entered
    runs,      \* how often the callback mkRule_LoopNest has run
    methods,   \* the methods of the rule the caller uses
    calls,     \* top-level calls made so far
    out,       \* what each finished top-level call gave its caller
    ret        \* the activation that returned in the last step, if one did

vars == <<root, top, stack, dyn, cache, invoked, validated, runs, methods, calls, out, ret>>

RuleAt(id) == IF id <= NStatic THEN StaticRules[id] ELSE dyn[id - NStatic]
DataAt(id) == IF id = ROOT THEN root ELSE Catalog[id]

NoRet == [rule |-> 0]
Ops == {"check", "meet", "pass"}

\* The values top-level calls are made with: the generated input, and one
\* fixed value nested two deep.
CallData == {ROOT, "o_nestEmpty"}

\* ------------------------------------------------------------ src/src/util.ts

RECURSIVE IndexOfKey(_, _, _)
\* Array.prototype.indexOf over a list of keys, from position i; 0 for -1.
IndexOfKey(keys, key, i) ==
    IF i > Len(keys) THEN 0
    ELSE IF keys[i] = key THEN i
    ELSE IndexOfKey(keys, key, i + 1)

objectEntries(ents) == ents
ObjectKeys(ents) == [i \in 1..Len(ents) |-> ents[i][1]]
objectKeyExists(ents, key) == IndexOfKey(ObjectKeys(ents), key, 1) >= 1

\* ------------------------------------------------------------- src/src/std.ts

TypeOf(c) == IF c.kind \in {"null", "array", "object"} THEN "object" ELSE c.kind
IsArray(c) == c.kind = "array"
LooseNull(c) == c.kind \in {"null", "undefined"}

\* The values for-of gives for an array: the element of every index below
\* its length, undefined where the array has a hole.
ArrayValues(d) ==
    [i \in 1..d.len |->
        LET at == IndexOfKey(ObjectKeys(d.ents), IdxKey(i), 1)
        IN IF at >= 1 THEN d.ents[at][2] ELSE UNDEF]

mkValiRet_Ok == "ok"
mkValiRet_Ng == "ng"
isOk_ValiRet(v) == v = "ok"
isNg_ValiRet(v) == v = "ng"

\* mkReport_Ok handing out a copy of the data.
mkReport_Ok_Copy(data) == [kind |-> "ok", data |-> "copy"]

mkReport_Ok(data) == [kind |-> "ok", data |-> data]
mkReport_Ng == [kind |-> "ng", data |-> "none"]
isOk_Report(report) == report.kind = "ok"
isNg_Report(report) == report.kind = "ng"

\* What a validate closure does next: return a ValiRet, or call check() of
\* a child rule on a value.
Return(v) == [do |-> "return", v |-> v, rule |-> 0, data |-> "none"]
Check(r, d) == [do |-> "check", v |-> "", rule |-> r, data |-> d]

\* The report of the child call made last, once it has come back.
Came(f) == f.n > 0 /\ Len(f.log) = f.n
Last(f) == f.log[f.n].report

rule_Scalar(r, f) ==
    Return(IF TypeOf(DataAt(f.data)) = r.value THEN mkValiRet_Ok ELSE mkValiRet_Ng)

\* rule_Null testing with data === null.
rule_NullLoose_Strict(r, f) ==
    Return(IF DataAt(f.data).kind = "null" THEN mkValiRet_Ok ELSE mkValiRet_Ng)

rule_NullLoose(r, f) ==
    Return(IF LooseNull(DataAt(f.data)) THEN mkValiRet_Ok ELSE mkValiRet_Ng)

LitBase(k) == CASE k = "StrLit" -> "string" [] k = "NumLit" -> "number" [] OTHER -> "boolean"

mkRule_Lit(r, f) ==
    LET d == DataAt(f.data) IN
    IF TypeOf(d) # LitBase(r.kind) THEN Return(mkValiRet_Ng)
    ELSE IF d.val # r.value THEN Return(mkValiRet_Ng)
    ELSE Return(mkValiRet_Ok)

\* mkRule_Array going on after an element was rejected.
mkRule_Array_NoBreak(r, f) ==
    LET d == DataAt(f.data) IN
    IF ~IsArray(d) THEN Return(mkValiRet_Ng)
    ELSE IF f.n < d.len THEN Check(r.kids[1], ArrayValues(d)[f.n + 1])
    ELSE IF Came(f) /\ isNg_Report(Last(f)) THEN Return(mkValiRet_Ng)
    ELSE Return(mkValiRet_Ok)

mkRule_Array(r, f) ==
    LET d == DataAt(f.data) IN
    IF ~IsArray(d) THEN Return(mkValiRet_Ng)
    ELSE IF Came(f) /\ isNg_Report(Last(f)) THEN Return(mkValiRet_Ng)
    ELSE IF f.n < d.len THEN Check(r.kids[1], ArrayValues(d)[f.n + 1])
    ELSE Return(mkValiRet_Ok)

\* mkRule_Dictionary without the test for null.
mkRule_Dictionary_NullObject(r, f) ==
    LET d == DataAt(f.data) IN
    IF TypeOf(d) # "object" THEN Return(mkValiRet_Ng)
    ELSE IF Came(f) /\ isNg_Report(Last(f)) THEN Return(mkValiRet_Ng)
    ELSE IF f.n < Len(objectEntries(d.ents))
         THEN Check(r.kids[1], objectEntries(d.ents)[f.n + 1][2])
    ELSE Return(mkValiRet_Ok)

\* mkRule_Dictionary turning arrays away.
mkRule_Dictionary_NoArrays(r, f) ==
    LET d == DataAt(f.data) IN
    IF TypeOf(d) # "object" \/ LooseNull(d) \/ IsArray(d) THEN Return(mkValiRet_Ng)
    ELSE IF Came(f) /\ isNg_Report(Last(f)) THEN Return(mkValiRet_Ng)
    ELSE IF f.n < Len(objectEntries(d.ents))
         THEN Check(r.kids[1], objectEntries(d.ents)[f.n + 1][2])
    ELSE Return(mkValiRet_Ok)

mkRule_Dictionary(r, f) ==
    LET d == DataAt(f.data) IN
    IF TypeOf(d) # "object" \/ LooseNull(d) THEN Return(mkValiRet_Ng)
    ELSE IF Came(f) /\ isNg_Report(Last(f)) THEN Return(mkValiRet_Ng)
    ELSE IF f.n < Len(objectEntries(d.ents))
         THEN Check(r.kids[1], objectEntries(d.ents)[f.n + 1][2])
    ELSE Return(mkValiRet_Ok)

\* mkRule_Tuple rejecting only the arrays that are too long.
mkRule_Tuple_AtMost(r, f) ==
    LET d == DataAt(f.data) IN
    IF ~IsArray(d) THEN Return(mkValiRet_Ng)
    ELSE IF d.len > Len(r.kids) THEN Return(mkValiRet_Ng)
    ELSE IF Came(f) /\ isNg_Report(Last(f)) THEN Return(mkValiRet_Ng)
    ELSE IF f.n < d.len THEN Check(r.kids[f.n + 1], ArrayValues(d)[f.n + 1])
    ELSE Return(mkValiRet_Ok)

mkRule_Tuple(r, f) ==
    LET d == DataAt(f.data) IN
    IF ~IsArray(d) THEN Return(mkValiRet_Ng)
    ELSE IF d.len # Len(r.kids) THEN Return(mkValiRet_Ng)
    ELSE IF Came(f) /\ isNg_Report(Last(f)) THEN Return(mkValiRet_Ng)
    ELSE IF f.n < d.len THEN Check(r.kids[f.n + 1], ArrayValues(d)[f.n + 1])
    ELSE Return(mkValiRet_Ok)

RuleOfKey(map, key) == map[IndexOfKey(ObjectKeys(map), key, 1)][2]

\* RequiredLoop with the presence check left out.
RequiredLoop_NoCheck(map, opt, ents, i) == mkValiRet_Ok

RECURSIVE RequiredLoop_AllRequired(_, _, _, _)
\* RequiredLoop taking the branch without optionalKeys whatever was given.
RequiredLoop_AllRequired(map, opt, ents, i) ==
    IF i > Len(map) THEN mkValiRet_Ok
    ELSE IF ~objectKeyExists(ents, map[i][1]) THEN mkValiRet_Ng
    ELSE RequiredLoop_AllRequired(map, opt, ents, i + 1)

RECURSIVE RequiredLoop(_, _, _, _)
\* The loop over objectEntries(ruleMap) that follows the property loop.
RequiredLoop(map, opt, ents, i) ==
    IF i > Len(map) THEN mkValiRet_Ok
    ELSE IF opt.given /\ IndexOfKey(opt.keys, map[i][1], 1) >= 1
         THEN RequiredLoop(map, opt, ents, i + 1)
    ELSE IF ~objectKeyExists(ents, map[i][1]) THEN mkValiRet_Ng
    ELSE RequiredLoop(map, opt, ents, i + 1)

mkRule_ObjLit(r, f) ==
    LET d == DataAt(f.data)
        es == objectEntries(d.ents)
    IN
    IF TypeOf(d) # "object" \/ LooseNull(d) THEN Return(mkValiRet_Ng)
    ELSE IF Came(f) /\ isNg_Report(Last(f)) THEN Return(mkValiRet_Ng)
    ELSE IF f.n < Len(es)
         THEN IF ~objectKeyExists(r.map, es[f.n + 1][1]) THEN Return(mkValiRet_Ng)
              ELSE Check(RuleOfKey(r.map, es[f.n + 1][1]), es[f.n + 1][2])
    ELSE Return(RequiredLoop(r.map, r.opt, d.ents, 1))

\* mkRule_Union going on to the next case after a case has accepted.
mkRule_Union_NoBreak(r, f) ==
    IF f.n < Len(r.kids) THEN Check(r.kids[f.n + 1], f.data)
    ELSE IF \E i \in 1..Len(f.log) : isOk_Report(f.log[i].report) THEN Return(mkValiRet_Ok)
    ELSE Return(mkValiRet_Ng)

mkRule_Union(r, f) ==
    IF Came(f) /\ isOk_Report(Last(f)) THEN Return(mkValiRet_Ok)
    ELSE IF f.n < Len(r.kids) THEN Check(r.kids[f.n + 1], f.data)
    ELSE Return(mkValiRet_Ng)

\* What a callback creates and returns when the next free rule id is `next`.
\* () => rule_String creates nothing; mkRule_LoopNest creates a fresh lazy
\* rule and the object-literal rule around it, and returns the latter.
callback(name, next) ==
    IF name = "mkRule_LoopNest"
    THEN [made |-> << LazyEval("mkRule_LoopNest"),
                      ObjLit(<< <<"nest", next>> >>, Opt(<<"nest">>)) >>,
          rule |-> next + 1]
    ELSE [made |-> <<>>, rule |-> rule_String]

\* cache = callback() storing the rule before the callback has run.
CacheAtCall_Eager(c, r) == r

\* cache = callback(): the call comes first, the cache keeps what it holds
\* until the callback has returned.
CacheAtCall(c, r) == c

\* The cache test answering yes whatever the cache holds.
CacheIsNull_Always(c) == TRUE

\* if (cache == null)
CacheIsNull(c) == c = 0

mkRule_LazyEval(r, f, cached) ==
    IF ~Came(f) THEN Check(cached, f.data)
    ELSE Return(IF isOk_Report(Last(f)) THEN mkValiRet_Ok ELSE mkValiRet_Ng)

\* mkRule with a pass that returns the data whatever validate returned.
mkRule_PassAlways(op, v, data) ==
    CASE op = "meet" -> [kind |-> IF isOk_ValiRet(v) THEN "true" ELSE "false", data |-> "none"]
      [] op = "pass" -> [kind |-> "returned", data |-> data]
      [] OTHER -> IF isOk_ValiRet(v) THEN mkReport_Ok(data) ELSE mkReport_Ng

\* The three methods mkRule wraps around a validate closure, applied to the
\* ValiRet the closure returned for `data`.
mkRule(op, v, data) ==
    CASE op = "meet" -> [kind |-> IF isOk_ValiRet(v) THEN "true" ELSE "false", data |-> "none"]
      [] op = "pass" -> IF isNg_ValiRet(v) THEN [kind |-> "Error", data |-> "none"]
                        ELSE [kind |-> "returned", data |-> data]
      [] OTHER -> IF isOk_ValiRet(v) THEN mkReport_Ok(data) ELSE mkReport_Ng

\* ---------------------------------------------------------------- actions

Frame(r, d, op) == [rule |-> r, data |-> d, op |-> op, n |-> 0, log |-> <<>>]

Running == stack # <<>>
Cur == stack[Len(stack)]
CurRule == RuleAt(Cur.rule)

Entered(val, r) == IF r \in DOMAIN val THEN [val EXCEPT ![r] = @ + 1] ELSE val

\* The current activation does `dec`.  A check() of a child pushes a frame,
\* or overflows the call stack: the RangeError unwinds every activation and
\* reaches the top-level caller.  A return pops the frame and hands the
\* method's result to the caller.  `val` is `validated` over the lazy rules
\* that exist after this step.
Do(dec, val) ==
    IF dec.do = "check"
    THEN IF Len(stack) >= MaxStack
         THEN /\ stack' = <<>>
              /\ out' = Append(out, [op |-> stack[1].op, arg |-> stack[1].data,
                                      kind |-> "RangeError", data |-> "none"])
              /\ validated' = val
              /\ ret' = NoRet
         ELSE /\ stack' = Append([stack EXCEPT ![Len(stack)].n = @ + 1],
                                 Frame(dec.rule, dec.data, "check"))
              /\ validated' = Entered(val, dec.rule)
              /\ ret' = NoRet
              /\ out' = out
    ELSE LET f == Cur
             res == mkRule(f.op, dec.v, f.data)
         IN /\ ret' = [rule |-> f.rule, data |-> f.data, op |-> f.op, v |-> dec.v,
                       report |-> res, log |-> f.log, n |-> f.n, depth |-> Len(stack)]
            /\ validated' = val
            /\ IF Len(stack) > 1
               THEN /\ stack' = [SubSeq(stack, 1, Len(stack) - 1) EXCEPT ![Len(stack) - 1].log =
                                    Append(@, [rule |-> f.rule, data |-> f.data, report |-> res])]
                    /\ out' = out
               ELSE /\ stack' = <<>>
                    /\ out' = Append(out, [op |-> f.op, arg |-> f.data,
                                            kind |-> res.kind, data |-> res.data])

Init ==
    /\ root \in Inputs
    /\ top \in Tops
    /\ stack = <<>>
    /\ dyn = <<>>
    /\ cache = [i \in StaticLazy |-> 0]
    /\ invoked = [i \in StaticLazy |-> 0]
    /\ validated = [i \in StaticLazy |-> 0]
    /\ runs = 0
    /\ methods = {"check"}
    /\ calls = 0
    /\ out = <<>>
    /\ ret = NoRet

\* A caller invokes top.meet(d), top.pass(d) or top.check(d).
Call(op, d) ==
    /\ ~Running
    /\ calls < MaxCalls
    /\ op \in methods
    /\ calls' = calls + 1
    /\ stack' = <<Frame(top, d, op)>>
    /\ validated' = Entered(validated, top)
    /\ ret' = NoRet
    /\ UNCHANGED <<root, top, dyn, cache, invoked, runs, methods, out>>

Pure(kinds, dec) ==
    /\ Running
    /\ CurRule.kind \in kinds
    /\ Do(dec, validated)
    /\ UNCHANGED <<root, top, dyn, cache, invoked, runs, methods, calls>>

ValidateScalar == Pure({"typeof"}, rule_Scalar(CurRule, Cur))
ValidateNull == Pure({"null"}, rule_NullLoose(CurRule, Cur))
ValidateLit == Pure({"StrLit", "NumLit", "BoolLit"}, mkRule_Lit(CurRule, Cur))
ValidateArray == Pure({"Array"}, mkRule_Array(CurRule, Cur))
ValidateDictionary == Pure({"Dictionary"}, mkRule_Dictionary(CurRule, Cur))
ValidateTuple == Pure({"Tuple"}, mkRule_Tuple(CurRule, Cur))
ValidateObjLit == Pure({"ObjLit"}, mkRule_ObjLit(CurRule, Cur))
ValidateUnion == Pure({"Union"}, mkRule_Union(CurRule, Cur))

\* The validate closure of a lazy rule.  Entered with an empty cache it runs
\* the callback and stores what the callback returns before it delegates.
ValidateLazyEval ==
    /\ Running
    /\ CurRule.kind = "LazyEval"
    /\ Cur.op # "callback"
    /\ CurRule.factory \in FaultyFactories => (Came(Cur) \/ ~CacheIsNull(cache[Cur.rule]))
    /\ LET f == Cur
           fill == ~Came(f) /\ CacheIsNull(cache[f.rule])
           made == callback(CurRule.factory, NStatic + Len(dyn) + 1)
           fresh == { NStatic + Len(dyn) + i : i \in { j \in 1..Len(made.made) :
                                                         made.made[j].kind = "LazyEval" } }
           zero == [i \in fresh |-> 0]
       IN IF fill
          THEN /\ dyn' = dyn \o made.made
               /\ cache' = [cache EXCEPT ![f.rule] = made.rule] @@ zero
               /\ invoked' = [invoked EXCEPT ![f.rule] = @ + 1] @@ zero
               /\ runs' = IF CurRule.factory = "mkRule_LoopNest" THEN runs + 1 ELSE runs
               /\ Do(mkRule_LazyEval(CurRule, f, made.rule), validated @@ zero)
          ELSE /\ UNCHANGED <<dyn, cache, invoked, runs>>
               /\ Do(mkRule_LazyEval(CurRule, f, cache[f.rule]), validated)
    /\ UNCHANGED <<root, top, methods, calls>>

\* The validate closure of a lazy rule finds its cache empty and calls a
\* callback that takes steps of its own: the callback's activation goes on
\* the stack, above the closure's.
CallFactory ==
    /\ Running
    /\ CurRule.kind = "LazyEval"
    /\ Cur.op # "callback"
    /\ CurRule.factory \in FaultyFactories
    /\ ~Came(Cur)
    /\ CacheIsNull(cache[Cur.rule])
    /\ invoked' = [invoked EXCEPT ![Cur.rule] = @ + 1]
    /\ cache' = [cache EXCEPT ![Cur.rule] =
                    CacheAtCall(@, callback(CurRule.factory, NStatic + Len(dyn) + 1).rule)]
    /\ IF Len(stack) >= MaxStack
       THEN /\ stack' = <<>>
            /\ out' = Append(out, [op |-> stack[1].op, arg |-> stack[1].data,
                                    kind |-> "RangeError", data |-> "none"])
       ELSE /\ stack' = Append(stack, Frame(Cur.rule, Cur.data, "callback"))
            /\ out' = out
    /\ ret' = NoRet
    /\ UNCHANGED <<root, top, dyn, validated, runs, methods, calls>>

\* The callback throws: nothing catches, the fault reaches the top-level
\* caller.
FactoryThrow ==
    /\ Running
    /\ Cur.op = "callback"
    /\ CurRule.factory = "flaky"
    /\ stack' = <<>>
    /\ out' = Append(out, [op |-> stack[1].op, arg |-> stack[1].data,
                            kind |-> "Thrown", data |-> "none"])
    /\ ret' = NoRet
    /\ UNCHANGED <<root, top, dyn, cache, invoked, validated, runs, methods, calls>>

\* The callback calls check() of its own lazy rule before it returns, up to
\* twice in one run.
FactoryReenter ==
    /\ Running
    /\ Cur.op = "callback"
    /\ CurRule.factory = "reentrant"
    /\ Cur.n = 0 \/ (Came(Cur) /\ Cur.n < 2)
    /\ Do(Check(Cur.rule, "s_str"), validated)
    /\ UNCHANGED <<root, top, dyn, cache, invoked, runs, methods, calls>>

\* The callback returns its rule, and the closure that called it assigns
\* the rule to the cache.
FactoryReturn ==
    /\ Running
    /\ Cur.op = "callback"
    /\ Cur.n = 0 \/ Came(Cur)
    /\ stack' = SubSeq(stack, 1, Len(stack) - 1)
    /\ cache' = [cache EXCEPT ![Cur.rule] =
                    callback(CurRule.factory, NStatic + Len(dyn) + 1).rule]
    /\ ret' = NoRet
    /\ UNCHANGED <<root, top, dyn, invoked, validated, runs, methods, calls, out>>

Next ==
    \/ \E op \in Ops, d \in CallData : Call(op, d)
    \/ ValidateScalar
    \/ ValidateNull
    \/ ValidateLit
    \/ ValidateArray
    \/ ValidateDictionary
    \/ ValidateTuple
    \/ ValidateObjLit
    \/ ValidateUnion
    \/ ValidateLazyEval

Spec == Init /\ [][Next]_vars

\* The inputs of the calls that compare the methods: the primitives, and
\* the arrays and objects of at most one entry.
MethodInputs == { c \in Inputs : Len(c.ents) <= 1 }

\* The caller uses all three methods of the rule.
InitMethods ==
    /\ root \in MethodInputs
    /\ top \in Tops
    /\ stack = <<>>
    /\ dyn = <<>>
    /\ cache = [i \in StaticLazy |-> 0]
    /\ invoked = [i \in StaticLazy |-> 0]
    /\ validated = [i \in StaticLazy |-> 0]
    /\ runs = 0
    /\ methods = Ops
    /\ calls = 0
    /\ out = <<>>
    /\ ret = NoRet

SpecMethods == InitMethods /\ [][Next]_vars

\* The inputs of the calls on such rules: the primitives, and the arrays
\* of strings and numbers.
FaultyInputs ==
    { c \in Inputs :
        /\ c.kind # "object"
        /\ Len(c.ents) = c.len
        /\ \A i \in 1..Len(c.ents) : c.ents[i][2] \in {"s_str", "n_123"} }

\* The rule under test is a lazy rule over a callback that throws or
\* re-enters, or an array rule over such a lazy rule.
InitFaulty ==
    /\ root \in FaultyInputs
    /\ top \in FaultyTops
    /\ stack = <<>>
    /\ dyn = <<>>
    /\ cache = [i \in StaticLazy |-> 0]
    /\ invoked = [i \in StaticLazy |-> 0]
    /\ validated = [i \in StaticLazy |-> 0]
    /\ runs = 0
    /\ methods = {"check"}
    /\ calls = 0
    /\ out = <<>>
    /\ ret = NoRet

NextFaulty ==
    \/ \E op \in Ops, d \in CallData : Call(op, d)
    \/ ValidateScalar
    \/ ValidateArray
    \/ ValidateLazyEval
    \/ CallFactory
    \/ FactoryThrow
    \/ FactoryReenter
    \/ FactoryReturn

SpecFaulty == InitFaulty /\ [][NextFaulty]_vars

\* ----------------------------------------------------------------- claims

\* An activation of a rule of kind k returned in the last step.
Returned(k) == ret.rule # 0 /\ RuleAt(ret.rule).kind = k
RetRule == RuleAt(ret.rule)
RetData == DataAt(ret.data)
RetOk == ret.report.kind = "ok"
RetNg == ret.report.kind = "ng"

\* The i-th child call the returned activation made was check() of rule r
\* on value d, and it reported `kind`.
Logged(i, r, d, kind) ==
    /\ i <= Len(ret.log)
    /\ ret.log[i].rule = r
    /\ ret.log[i].data = d
    /\ ret.log[i].report.kind = kind

IsObject(c) == c.kind \in {"object", "array"}
HasKey(ents, key) == \E i \in 1..Len(ents) : ents[i][1] = key
Declared(map, key, r) == \E i \in 1..Len(map) : map[i] = <<key, r>>

\* Every property of the input is declared in the rule map and its value
\* was accepted by the rule declared for its key.
PropsAccepted ==
    \A i \in 1..Len(RetData.ents) :
        \E r \in 1..(NStatic + Len(dyn)) :
            /\ Declared(RetRule.map, RetData.ents[i][1], r)
            /\ Logged(i, r, RetData.ents[i][2], "ok")

IsStr(id) == DataAt(id).kind = "string"
IsNum(id) == DataAt(id).kind = "number"

\* C1: an object-literal rule without optionalKeys reports Ok iff the input
\* is a non-null object, every own key of it is declared in ruleMap, every
\* property value is accepted by the rule of its key, and every declared
\* key is present; an unknown key or a missing declared key gives Ng.
C1_ObjLitAllRequired ==
    (Returned("ObjLit") /\ ~RetRule.opt.given) =>
        /\ RetOk <=> /\ IsObject(RetData)
                     /\ PropsAccepted
                     /\ \A j \in 1..Len(RetRule.map) : HasKey(RetData.ents, RetRule.map[j][1])
        /\ (\E i \in 1..Len(RetData.ents) : ~HasKey(RetRule.map, RetData.ents[i][1])) => RetNg
        /\ (\E j \in 1..Len(RetRule.map) : ~HasKey(RetData.ents, RetRule.map[j][1])) => RetNg
        /\ ret.rule = rule_ObjStr =>
              (RetOk <=> /\ RetData.kind = "object"
                         /\ Len(RetData.ents) = 2
                         /\ RetData.ents[1] = <<"type", "s_str">>
                         /\ RetData.ents[2][1] = "strValue"
                         /\ IsStr(RetData.ents[2][2]))

\* {type: "str", strValue: "str"} passes the rule {type: 'str', strValue: string}.
C1_Witness ==
    /\ Returned("ObjLit") /\ ret.rule = rule_ObjStr
    /\ RetOk /\ Len(ret.log) = 2

\* The returned activation's input is a non-null object with only declared keys.
OnlyDeclared ==
    /\ IsObject(RetData)
    /\ \A i \in 1..Len(RetData.ents) : HasKey(RetRule.map, RetData.ents[i][1])

IsOptional(key) == \E i \in 1..Len(RetRule.opt.keys) : RetRule.opt.keys[i] = key

\* Some property of the input had its value rejected by the rule of its key.
PropRejected ==
    \E i \in 1..Len(ret.log) :
        /\ isNg_Report(ret.log[i].report)
        /\ ret.log[i].data = RetData.ents[i][2]
        /\ Declared(RetRule.map, RetData.ents[i][1], ret.log[i].rule)

RequiredAbsent ==
    \E j \in 1..Len(RetRule.map) :
        ~IsOptional(RetRule.map[j][1]) /\ ~HasKey(RetData.ents, RetRule.map[j][1])

EmptyObject == Cell("object", "", <<>>)
NestOf(id) == Cell("object", "", << <<"nest", id>> >>)

\* C2: with optionalKeys given, and an input that is a non-null object with
\* only declared keys: an absent declared key that is not optional gives
\* Ng; a present key whose value its rule rejects gives Ng, optional or
\* not; absent optional keys cost nothing, so the report is Ok when neither
\* happens.  For {nest?: Self}: {} is Ok, {nest: {}} is Ok, {nest: "x"} is Ng.
C2_ObjLitOptional ==
    /\ (Returned("ObjLit") /\ RetRule.opt.given /\ OnlyDeclared) =>
          /\ RequiredAbsent => RetNg
          /\ PropRejected => RetNg
          /\ RetOk <=> (PropsAccepted /\ ~RequiredAbsent)
    /\ (Returned("ObjLit") /\ ret.rule = rule_LoopNest /\ ret.depth = 1 /\ ret.data = ROOT) =>
          /\ root = EmptyObject => RetOk
          /\ root = NestOf("o_empty") => RetOk
          /\ root = NestOf("s_str") => RetNg

\* {type: "str"} passes {type: 'str', strValue?: string}: the optional key
\* is absent and the required one present.
C2_Witness ==
    /\ Returned("ObjLit") /\ ret.rule = rule_ObjOptStr
    /\ RetOk /\ Len(RetData.ents) = 1

\* C3: a union rule calls its cases in the given order, each on the input
\* itself, and stops at the first case that accepts; it reports Ok iff a
\* case accepted, with the input as payload, and Ng when every case was
\* tried and none accepted: always, for an empty case list.
C3_UnionFirstMatch ==
    Returned("Union") =>
        /\ Len(ret.log) <= Len(RetRule.kids)
        /\ \A i \in 1..Len(ret.log) :
              /\ ret.log[i].rule = RetRule.kids[i]
              /\ ret.log[i].data = ret.data
              /\ isOk_Report(ret.log[i].report) => i = Len(ret.log)
        /\ RetOk <=> \E i \in 1..Len(ret.log) : isOk_Report(ret.log[i].report)
        /\ RetOk => ret.report.data = ret.data
        /\ RetNg <=> /\ Len(ret.log) = Len(RetRule.kids)
                     /\ \A i \in 1..Len(ret.log) : isNg_Report(ret.log[i].report)
        /\ Len(RetRule.kids) = 0 => RetNg

\* The second of three cases accepts; the third is never called.
C3_Witness ==
    /\ Returned("Union") /\ RetOk
    /\ Len(ret.log) = 2 /\ Len(RetRule.kids) = 3

LazyCells == DOMAIN cache

\* The activation on top of the stack is one of lazy rule c whose closure
\* has not run yet.
Pending(c) == Running /\ Cur.rule = c /\ Cur.n = 0

\* C4: a lazy rule does not invoke its factory when it is constructed; it
\* invokes it once, in its first validate call, and stores what the factory
\* returns in its cache; later validate calls find the cache filled and do
\* not invoke the factory; a filled cache is never reset or replaced.
C4_LazyOnce ==
    /\ [](\A c \in LazyCells :
            /\ invoked[c] <= 1
            /\ (cache[c] # 0) <=> (invoked[c] = 1)
            /\ validated[c] = 0 => invoked[c] = 0
            /\ (validated[c] >= 1 /\ ~(validated[c] = 1 /\ Pending(c))) => invoked[c] = 1)
    /\ [][\A c \in LazyCells :
            /\ cache[c] # 0 => cache'[c] = cache[c]
            /\ invoked'[c] # invoked[c] =>
                  /\ validated[c] = 1
                  /\ cache'[c] = callback(RuleAt(c).factory, NStatic + Len(dyn) + 1).rule]_vars

\* A lazy rule has been validated twice and has invoked its factory once.
C4_Witness ==
    \E c \in LazyCells : validated[c] >= 2 /\ invoked[c] = 1 /\ ~Running

\* The README's two calls on rule_LoopNest, made on a generated input.
LoopNestExamples ==
    (Returned("ObjLit") /\ ret.rule = rule_LoopNest /\ ret.depth = 1 /\ ret.data = ROOT) =>
        /\ root = NestOf("o_nestEmpty") => RetOk
        /\ root = NestOf("o_nestStr") => RetNg

\* C5 as the spec has it: {nest: {nest: {}}} is Ok, {nest: {nest: "abc"}} is
\* Ng, and the callback mkRule_LoopNest runs at most once in total.
C5_FactoryOnceInTotal == LoopNestExamples /\ runs <= 1

RECURSIVE NestLevels(_, _)
\* How many levels of nest an input has, counted up to `fuel`.
NestLevels(id, fuel) ==
    IF fuel = 0 \/ ~IsObject(DataAt(id)) THEN 0
    ELSE LET nests == { i \in 1..Len(DataAt(id).ents) : DataAt(id).ents[i][1] = "nest" }
         IN IF nests = {} THEN 0
            ELSE 1 + NestLevels(DataAt(id).ents[CHOOSE i \in nests : TRUE][2], fuel - 1)

\* The inputs of the top-level calls made so far.
Called == { out[i].arg : i \in 1..Len(out) } \cup (IF Running THEN {stack[1].data} ELSE {})

LoopNestCells == { c \in LazyCells : RuleAt(c).factory = "mkRule_LoopNest" }

\* C5, amended: the two examples hold; each lazy rule runs the callback at
\* most once, but each run of mkRule_LoopNest creates the lazy rule of the
\* next level, so the callback runs once for every level of nesting reached
\* for the first time: twice in validate({nest: {nest: {}}}) on a fresh
\* rule, and in total never more often than the deepest input has levels.
C5_FactoryOncePerLevel ==
    /\ LoopNestExamples
    /\ \A c \in LazyCells : invoked[c] <= 1
    /\ runs = Cardinality({ c \in LoopNestCells : cache[c] # 0 })
    /\ top = rule_LoopNest =>
          (runs = 0 \/ \E d \in Called : runs <= NestLevels(d, MaxStack))
    /\ (Returned("ObjLit") /\ ret.rule = rule_LoopNest /\ ret.depth = 1 /\ ret.data = ROOT
          /\ root = NestOf("o_nestEmpty")) => runs = 2

\* validate({nest: {nest: {}}}) has returned Ok twice; the callback has run twice.
C5_Witness ==
    /\ top = rule_LoopNest /\ root = NestOf("o_nestEmpty")
    /\ Len(out) = 2 /\ out[1].arg = ROOT /\ out[2].arg = ROOT
    /\ out[2].kind = "ok" /\ runs = 2

\* C6: every call of check() on a rule built from the built-in constructors
\* returns a report that is Ok or Ng, whatever the input: it raises nothing.
C6_AlwaysOutcome ==
    \A i \in 1..Len(out) : out[i].op = "check" => out[i].kind \in {"ok", "ng"}

\* C7: the calls made on one rule with one input all give the same outcome,
\* before and after a lazy rule's cache is filled, and an Ok report carries
\* the very value check() was called with, at the top level and in every
\* child call.
C7_Pure ==
    /\ \A i, j \in 1..Len(out) :
          (out[i].arg = out[j].arg /\ out[i].op = out[j].op) =>
              (out[i].kind = out[j].kind /\ out[i].data = out[j].data)
    /\ \A i \in 1..Len(out) : out[i].kind = "ok" => out[i].data = out[i].arg
    /\ ret.rule # 0 =>
          /\ RetOk => ret.report.data = ret.data
          /\ \A i \in 1..Len(ret.log) :
                isOk_Report(ret.log[i].report) => ret.log[i].report.data = ret.log[i].data

\* Two calls on the recursive rule with {nest: {}}: the first fills the
\* lazy rule's cache, the second uses it, and both report Ok with the input.
C7_Witness ==
    /\ top = rule_LoopNest /\ root = NestOf("o_empty")
    /\ Len(out) = 2 /\ out[1].arg = ROOT /\ out[2].arg = ROOT
    /\ out[1].kind = "ok" /\ out[2].kind = "ok" /\ out[2].data = ROOT

\* Some child call of the returned activation reported Ng.
ChildRejected == \E i \in 1..Len(ret.log) : isNg_Report(ret.log[i].report)

\* C8: a tuple rule of n rules reports Ok iff the input is an array of
\* exactly n elements and rule i accepts element i, for every i; an array
\* that is shorter or longer gives Ng without a look at its elements.
C8_TupleExact ==
    Returned("Tuple") =>
        /\ RetOk <=> /\ RetData.kind = "array"
                     /\ RetData.len = Len(RetRule.kids)
                     /\ \A i \in 1..Len(RetRule.kids) :
                           Logged(i, RetRule.kids[i], ArrayValues(RetData)[i], "ok")
        /\ (RetData.kind = "array" /\ RetData.len # Len(RetRule.kids)) =>
              (RetNg /\ ret.log = <<>>)
        /\ RetData.kind # "array" => RetNg
        /\ ret.rule = rule_StrNumPair =>
              (RetOk <=> /\ RetData.kind = "array"
                         /\ RetData.len = 2
                         /\ IsStr(ArrayValues(RetData)[1])
                         /\ IsNum(ArrayValues(RetData)[2]))

\* ["str", 123] passes the tuple rule (string, number).
C8_Witness ==
    /\ Returned("Tuple") /\ ret.rule = rule_StrNumPair
    /\ RetOk /\ Len(ret.log) = 2

\* C9: an array rule reports Ok iff the input is an array and the element
\* rule accepts every element; an input that is no array gives Ng, an
\* element the rule rejects gives Ng, and the empty array gives Ok.
C9_ArrayAll ==
    Returned("Array") =>
        /\ RetOk <=> /\ RetData.kind = "array"
                     /\ \A i \in 1..RetData.len :
                           Logged(i, RetRule.kids[1], ArrayValues(RetData)[i], "ok")
        /\ RetData.kind # "array" => RetNg
        /\ ChildRejected => RetNg
        /\ RetData = Cell("array", "", <<>>) => RetOk
        /\ ret.rule = rule_StrArray =>
              (RetOk <=> /\ RetData.kind = "array"
                         /\ \A i \in 1..RetData.len : IsStr(ArrayValues(RetData)[i]))

\* ["str", "num"] passes the array rule of strings.
C9_Witness ==
    /\ Returned("Array") /\ ret.rule = rule_StrArray
    /\ RetOk /\ Len(ret.log) = 2

\* C10: a dictionary rule gives Ng to an input that is not a non-null
\* object; to any other it reports Ok iff the element rule accepts the
\* value of every own key, whatever the keys are, so Ok for no keys.
C10_DictionaryAll ==
    Returned("Dictionary") =>
        /\ ~IsObject(RetData) => RetNg
        /\ IsObject(RetData) =>
              (RetOk <=> \A i \in 1..Len(RetData.ents) :
                           Logged(i, RetRule.kids[1], RetData.ents[i][2], "ok"))
        /\ (IsObject(RetData) /\ RetData.ents = <<>>) => RetOk
        /\ ret.rule = rule_NumDict =>
              (RetOk <=> /\ IsObject(RetData)
                         /\ \A i \in 1..Len(RetData.ents) : IsNum(RetData.ents[i][2]))

\* {type: 123, nest: 123} passes the dictionary rule of numbers.
C10_Witness ==
    /\ Returned("Dictionary") /\ RetData.kind = "object"
    /\ RetOk /\ Len(ret.log) = 2

ScalarKinds == {"string", "number", "boolean", "bigint", "symbol", "undefined"}

\* C11: each of the rules string, number, boolean, bigint, symbol and
\* undefined reports Ok iff the runtime kind of the input is the rule's kind
\* (so Ng for null, arrays and objects); the null rule reports Ok iff the
\* input is null or undefined, so it accepts all that rule_Undefined accepts.
C11_Primitives ==
    /\ Returned("typeof") =>
          /\ ret.rule \in rule_String..rule_Undefined
          /\ RetRule.value \in ScalarKinds
          /\ RetOk <=> RetData.kind = RetRule.value
          /\ ~RetOk => RetNg
    /\ Returned("null") =>
          /\ RetOk <=> RetData.kind \in {"null", "undefined"}
          /\ ~RetOk => RetNg
          /\ RetData.kind = "undefined" => RetOk

\* rule_Null has accepted undefined.
C11_Witness ==
    /\ Returned("null") /\ ret.rule = rule_Null
    /\ RetData.kind = "undefined" /\ RetOk

Composite == {"Array", "Tuple", "Dictionary", "ObjLit"}

\* The values a composite rule goes through, in its order: the elements of
\* an array for an array or tuple rule, the values of the own properties
\* for a dictionary or object-literal rule.
Visited(r, d) ==
    IF r.kind \in {"Array", "Tuple"} THEN ArrayValues(d)
    ELSE [i \in 1..Len(d.ents) |-> d.ents[i][2]]

\* The rule a composite rule applies to the i-th of them.
ChildRule(r, ents, i) ==
    CASE r.kind \in {"Array", "Dictionary"} -> r.kids[1]
      [] r.kind = "Tuple" -> r.kids[i]
      [] OTHER -> RuleOfKey(r.map, ents[i][1])

\* C12: an array rule calls the element rule on the elements in increasing
\* index order, every call before the last was accepted, and when the
\* element at index k is the first one rejected the calls are those on
\* elements 0..k and the result is Ng; the same for the positions of a
\* tuple; and object-literal and dictionary rules too make no child call
\* after a child has reported Ng: their next step is to return Ng.
C12_ShortCircuit ==
    /\ []((ret.rule # 0 /\ RetRule.kind \in Composite) =>
            /\ Len(ret.log) <= Len(Visited(RetRule, RetData))
            /\ \A i \in 1..Len(ret.log) :
                  /\ ret.log[i].data = Visited(RetRule, RetData)[i]
                  /\ ret.log[i].rule = ChildRule(RetRule, RetData.ents, i)
                  /\ i < Len(ret.log) => isOk_Report(ret.log[i].report)
            /\ ChildRejected => RetNg
            /\ (RetRule.kind \in {"Array", "Tuple", "Dictionary"} /\ ret.log # <<>>
                  /\ Len(ret.log) < Len(Visited(RetRule, RetData))) =>
                  isNg_Report(ret.log[Len(ret.log)].report))
    /\ [][(Running /\ CurRule.kind \in Composite /\ Came(Cur) /\ isNg_Report(Last(Cur))) =>
            /\ Len(stack') = Len(stack) - 1
            /\ ret'.rule = Cur.rule
            /\ ret'.report.kind = "ng"]_vars

\* An array rule was given two elements, had the first rejected and never
\* called the element rule on the second.
C12_Witness ==
    /\ Returned("Array") /\ RetData.kind = "array"
    /\ RetData.len = 2 /\ Len(ret.log) = 1
    /\ isNg_Report(ret.log[1].report) /\ RetNg

\* What a finished call told its caller: that the data passed, that it did
\* not, or the fault that came out of the validate function.
Verdict(o) ==
    CASE o.kind \in {"true", "ok", "returned"} -> "passed"
      [] o.kind \in {"false", "ng", "Error"} -> "failed"
      [] OTHER -> o.kind

\* C13: the three methods of a rule agree on every input: meet gives true
\* iff check gives the Ok report iff pass returns, and pass throws its Error
\* exactly when check gives Ng and meet gives false; pass returns the very
\* value it was given and an Ok report of check carries it; meet gives a
\* boolean, check a report, and a fault of the validate function reaches
\* the caller of each method alike.
C13_MethodsAgree ==
    /\ \A i, j \in 1..Len(out) :
          out[i].arg = out[j].arg => Verdict(out[i]) = Verdict(out[j])
    /\ \A i \in 1..Len(out) :
          /\ out[i].op = "meet" => out[i].kind \in {"true", "false", "RangeError"}
          /\ out[i].op = "check" => out[i].kind \in {"ok", "ng", "RangeError"}
          /\ out[i].op = "pass" => out[i].kind \in {"returned", "Error", "RangeError"}
          /\ out[i].kind \in {"ok", "returned"} => out[i].data = out[i].arg
    /\ (ret.rule # 0 /\ ret.depth = 1) =>
          /\ ret.op = "meet" => (ret.report.kind = "true" <=> isOk_ValiRet(ret.v))
          /\ ret.op = "check" => (RetOk <=> isOk_ValiRet(ret.v))
          /\ ret.op = "pass" => (ret.report.kind = "Error" <=> isNg_ValiRet(ret.v))

\* check gave Ng for an input, and pass threw its Error for the same input.
C13_Witness ==
    /\ Len(out) = 2 /\ out[1].arg = out[2].arg
    /\ out[1].op = "check" /\ out[1].kind = "ng"
    /\ out[2].op = "pass" /\ out[2].kind = "Error"

\* The rule's element rule has accepted every element of the array it was
\* given, one child call for each, in index order.
ElementsAccepted ==
    /\ Len(ret.log) = RetData.len
    /\ \A i \in 1..RetData.len : Logged(i, RetRule.kids[1], ArrayValues(RetData)[i], "ok")

\* An object-literal rule with no declared field, or with every declared
\* field optional, has returned for the empty array.
LenientOnEmptyArray ==
    /\ Returned("ObjLit")
    /\ RetData = Cell("array", "", <<>>)
    /\ \/ RetRule.map = <<>>
       \/ RetRule.opt.given /\ \A j \in 1..Len(RetRule.map) : IsOptional(RetRule.map[j][1])

\* C14 as the spec has it: on every array a dictionary rule gives what the
\* array rule of the same element rule gives, Ok iff the element rule
\* accepts every element; and an object-literal rule with no declared
\* field, or only optional ones, gives Ok on the empty array.
C14_ArrayAsDictionary ==
    /\ (Returned("Dictionary") /\ RetData.kind = "array") => (RetOk <=> ElementsAccepted)
    /\ (Running /\ CurRule.kind \in {"Array", "Dictionary"} /\ IsArray(DataAt(Cur.data))) =>
          mkRule_Dictionary(CurRule, Cur) = mkRule_Array(CurRule, Cur)
    /\ LenientOnEmptyArray => RetOk

\* An array that has an element at every index below its length and no
\* other own property.
PlainArray(c) ==
    /\ c.kind = "array"
    /\ Len(c.ents) = c.len
    /\ \A i \in 1..c.len : c.ents[i][1] = IdxKey(i)

\* C14, amended: on every array without holes and without named properties
\* a dictionary rule does, step for step, what the array rule of the same
\* element rule does, and reports Ok iff the element rule accepts every
\* element.  On other arrays it goes through the own properties: it skips
\* the holes, which the array rule checks as undefined, and it checks the
\* named properties, which the array rule never sees.  An object-literal
\* rule with no declared field, or only optional ones, gives Ok on the
\* empty array.
C14_PlainArrayAsDictionary ==
    /\ (Returned("Dictionary") /\ PlainArray(RetData)) => (RetOk <=> ElementsAccepted)
    /\ (Running /\ CurRule.kind \in {"Array", "Dictionary"} /\ PlainArray(DataAt(Cur.data))) =>
          mkRule_Dictionary(CurRule, Cur) = mkRule_Array(CurRule, Cur)
    /\ (Returned("Dictionary") /\ RetData.kind = "array") =>
          (RetOk <=> \A i \in 1..Len(RetData.ents) :
                       Logged(i, RetRule.kids[1], RetData.ents[i][2], "ok"))
    /\ LenientOnEmptyArray => RetOk

\* The dictionary rule of numbers has accepted an array of two numbers.
C14_Witness ==
    /\ Returned("Dictionary") /\ PlainArray(RetData)
    /\ RetData.len = 2 /\ RetOk /\ ElementsAccepted

\* A callback's activation is on top of the stack.
InFactory == Running /\ Cur.op = "callback"

\* The last top-level call ended in a fault.
Faulted == out # <<>> /\ out[Len(out)].kind \in {"Thrown", "RangeError"}

\* C15: a lazy rule's cache is written only when its callback returns.  A
\* callback that has just been called finds the cache empty, so it is empty
\* where the callback throws and where it calls check() of its own lazy
\* rule; a fault that comes out of a callback leaves the cache as it was and
\* reaches the top-level caller; and a validate closure that finds the
\* cache empty, in the call after a fault or in a re-entrant call, invokes
\* the callback again.
C15_CacheAfterReturn ==
    /\ []((InFactory /\ Cur.n = 0) => cache[Cur.rule] = 0)
    /\ []((~Running /\ Faulted) => \A c \in LazyCells : cache[c] = 0)
    /\ [][/\ cache' # cache =>
              /\ InFactory
              /\ stack' = SubSeq(stack, 1, Len(stack) - 1)
              /\ cache' = [cache EXCEPT ![Cur.rule] = rule_String]
          /\ (InFactory /\ stack' = <<>>) =>
              /\ cache' = cache
              /\ Len(out') = Len(out) + 1
              /\ out'[Len(out')].kind \in {"Thrown", "RangeError"}
              /\ out'[Len(out')].arg = stack[1].data
          /\ (Running /\ CurRule.kind = "LazyEval" /\ ~InFactory /\ Cur.n = 0
                /\ cache[Cur.rule] = 0 /\ stack' # <<>>) =>
              /\ invoked'[Cur.rule] = invoked[Cur.rule] + 1
              /\ stack'[Len(stack')] = Frame(Cur.rule, Cur.data, "callback")]_vars

\* The callback threw in the first call, and the second call has invoked
\* it again; and a callback that re-entered has been invoked again by the
\* re-entrant call, before any run of it had returned.
C15_Witness ==
    \/ /\ Len(out) = 1 /\ out[1].kind = "Thrown"
       /\ InFactory /\ Cur.rule = rule_LazyFlaky
       /\ invoked[rule_LazyFlaky] = 2 /\ cache[rule_LazyFlaky] = 0
    \/ /\ InFactory /\ Cur.rule = rule_LazyReenter /\ Len(stack) = 4
       /\ stack[2].op = "callback" /\ stack[2].rule = rule_LazyReenter
       /\ invoked[rule_LazyReenter] = 2 /\ cache[rule_LazyReenter] = 0

====
